---- MODULE Spec2Model ----
(***************************************************************************)
(* A model of the interchange crate (src/src/lib.rs): one Channel shared   *)
(* by one Requester and one Responder.  Every method is split into one     *)
(* step per access to the atomic `state` and one step per access to the    *)
(* payload slot `data`, so that all interleavings of the two sides are     *)
(* explored.  A second specification, SpecPool, models how the ends of the *)
(* channels of an Interchange are claimed and released by several callers. *)
(***************************************************************************)
EXTENDS Naturals, Sequences, FiniteSets, Bags, TLC

\* Payload values are 0..MaxVal, for requests (Rq) and for responses (Rp).
MaxVal == 1

\* An Interchange<Rq, Rp, N> has N = NChannels channels, indexed 0 .. N-1.
NChannels == 2

\* The number of threads that claim and release channel ends.
NCallers == 2

\* Interchange::last_claimed is a usize; claim() is called at most MaxClaims times.
MaxClaims == 4

\* enum State, #[repr(u8)]
Idle == 0
BuildingRequest == 1
Requested == 2
BuildingResponse == 3
Responded == 4
Canceled == 12

State == {Idle, BuildingRequest, Requested, BuildingResponse, Responded, Canceled}

Rq == 0 .. MaxVal
Rp == 0 .. MaxVal

\* <u64 as Default>::default(), the payload type of tests/loom.rs
RqDefault == 0
RpDefault == 0

VARIABLES
    state,      \* Channel::state, the AtomicU8
    data,       \* Channel::data, the UnsafeCell<Message<Rq, Rp>>
    requester,  \* the thread holding the Requester: its position and its call
    responder,  \* the thread holding the Responder: its position and its call
    sent,       \* history: the request value last written into the slot by the requester
    canceled,   \* history: cancel() returned Ok and no request was published since
    script,     \* history: the calls completed one after the other since an Idle channel
    race,       \* history: a cancel() and a take_request()/with_request() started on Requested
    answer,     \* history: the response published last (not yet taken, asked for, peeked) and
                \* the response built in place for the pending request (draft); whether the
                \* responder has obtained the request published last (got)
    failed,     \* history: of each thread, whether its call in progress repeats the failed
                \* call before it with no change of State by the peer since that call
                \* returned, and whether that call found the same State at each access
    reference,  \* the &Rq that Responder::request() returned: "held" while the responder
                \* keeps it, "none" when it has none, "discard" for a responder that keeps
                \* no reference beyond the call that returned it
    channels,   \* Interchange::channels.len(), the number of channels of the Interchange
    before,     \* history: the number of channels with both ends free, and last_claimed,
                \* in the initial state
    requester_claimed,  \* Channel::requester_claimed of every channel
    responder_claimed,  \* Channel::responder_claimed of every channel
    last_claimed,       \* Interchange::last_claimed
    requesters,         \* per channel, the Requester handles returned to callers and not dropped
    responders,         \* per channel, the Responder handles returned to callers and not dropped
    thread,             \* the callers inside split() or claim(): a bag of their positions
    last                \* history: the call of requester(), responder(), split() or claim()
                        \* that returned in the last step

\* The transaction on one channel, and the claiming of channel ends.
chanvars == <<state, data, requester, responder, sent, canceled, script, race, answer, failed,
             reference, channels, before>>
poolvars == <<requester_claimed, responder_claimed, last_claimed, requesters, responders, thread,
              last>>

vars == <<state, data, requester, responder, sent, canceled, script, race, answer, failed,
          reference, channels, before,
          requester_claimed, responder_claimed, last_claimed, requesters, responders, thread,
          last>>

Chan == 0 .. (NChannels - 1)

\* The channels with both ends free.
FreeChannels == {ch \in Chan : ~requester_claimed[ch] /\ ~responder_claimed[ch]}

----------------------------------------------------------------------------
\* enum Message<Rq, Rp> { None, Request(Rq), Response(Rp) }

MessageNone == [tag |-> "None", val |-> {}]

from_rq(rq) == [tag |-> "Request", val |-> {rq}]

from_rp(rp) == [tag |-> "Response", val |-> {rp}]

Message == {MessageNone} \cup {from_rq(v) : v \in Rq} \cup {from_rp(w) : w \in Rp}

is_request_state(m) == m.tag = "Request"

is_response_state(m) == m.tag = "Response"

\* take_rq, rq_ref, rq_mut: the Request arm; any other tag is unreachable!()
rq_arm(m) == m.tag = "Request"

\* take_rp, rp_ref, rp_mut: the Response arm; any other tag is unreachable!()
rp_arm(m) == m.tag = "Response"

----------------------------------------------------------------------------
\* Mutant: transition() that stores `to` whatever State is (a swap, not a compare-and-swap).
transition_swap(from, to) == to

\* Channel::transition(from, to): state.compare_exchange(from, to).is_ok()

transition_ok(from, to) == state = from

transition_state(from, to) == IF state = from THEN to ELSE state

----------------------------------------------------------------------------
\* A thread between two calls keeps the record of its last call:
\*   op, arg  the method and its argument ({} when it has none); the responder's
\*            request() is written "Responder::request" to tell it from the requester's
\*   res      "Ok" | "Err" | "Some" | "None" | "true" | "false" | "panic"
\*   val      the payload the call returned or exposed ({} when none)
\*   obs      the values of `state` the call read, in order

NoCall == [pc |-> "idle", op |-> "none", arg |-> {}, res |-> "none", val |-> {}, obs |-> <<>>]

\* A caller inside split() or claim(): its position (pc), the channels its call still has
\* to try (todo) and, history, whether no other caller acted since its claim() began (solo)
\* and, if so, the channels that had both ends free when it began (free).
InCall(pc, op, todo, solo, free) ==
    [pc |-> pc, op |-> op, todo |-> todo, solo |-> solo, free |-> free]

\* History: a call that returned: its result, the channel it tried last, whether it dropped
\* a Requester it had obtained, whether it ran alone and, if so, the channels that had both
\* ends free when it began.
Returns(op, ch, res, rolled, solo, free) ==
    [op |-> op, ch |-> ch, res |-> res, rolled |-> rolled, solo |-> solo, free |-> free]
NoLast == Returns("none", 0, "none", FALSE, FALSE, {})

Begin(op, arg, pc) ==
    [pc |-> pc, op |-> op, arg |-> arg, res |-> "pending", val |-> {}, obs |-> <<state>>]

Step(c, pc) == [c EXCEPT !.pc = pc]

Read(c, pc) == [c EXCEPT !.pc = pc, !.obs = Append(@, state)]

Return(c, res, val) == [c EXCEPT !.pc = "idle", !.res = res, !.val = val]

Panic(c) == [c EXCEPT !.pc = "panicked", !.res = "panic"]

----------------------------------------------------------------------------
\* History variables.  They record what the calls did and are read by no action.

IsPrefix(s, t) == Len(s) <= Len(t) /\ \A i \in 1 .. Len(s) : s[i] = t[i]

Call(op, arg) == [op |-> op, arg |-> arg]

\* The call sequences of tests::interchange (src/src/lib.rs) and of the crate's doc test.
RoundTrip(v, w) ==
    <<Call("request", {v}), Call("take_request", {}),
      Call("respond", {w}), Call("take_response", {})>>

RoundTripInPlace(v, w) ==
    <<Call("with_request_mut", {v}), Call("send_request", {}), Call("take_request", {}),
      Call("with_response_mut", {w}), Call("send_response", {}), Call("take_response", {})>>

CancelBeforeTake(v) ==
    <<Call("request", {v}), Call("cancel", {}), Call("take_request", {})>>

CancelAfterTake(v, w) ==
    <<Call("request", {v}), Call("take_request", {}), Call("cancel", {}),
      Call("is_canceled", {}), Call("respond", {w}), Call("acknowledge_cancel", {})>>

Scripts ==
    UNION {{RoundTrip(v, w), RoundTripInPlace(v, w), CancelBeforeTake(v), CancelAfterTake(v, w)} :
           v \in Rq, w \in Rp}

OnScript(s) == \E t \in Scripts : IsPrefix(s, t)

NoScript == [on |-> FALSE, done |-> <<>>]

NoRace == [rq |-> "no", rp |-> "no"]

\* fresh: a response was published and take_response() has not returned it;
\* asked: a request was published and no response since; peeked: what with_response() or
\* response() returned since the response was published.
\* The operations by which the responder obtains the request.
ObtainOps == {"with_request", "Responder::request", "take_request"}
NoAnswer == [fresh |-> FALSE, asked |-> FALSE, peeked |-> {}, draft |-> {}, got |-> FALSE]

\* The results that report a failure.
Failed == {"Err", "None"}

NoFailed == [rq |-> "no", rp |-> "no"]

\* What a call that failed found: the same State at each of its accesses, or not.
Found(obs) == IF \A i \in 1 .. Len(obs) : obs[i] = obs[1] THEN "steady" ELSE "raced"

\* What the call `new` repeats: the failed call `old` before it, if it is the same operation.
Repeats(old, new, f) ==
    IF old.pc # "idle" THEN f
    ELSE IF old.res \in Failed /\ old.op = new.op THEN f
    ELSE "no"

RaceOps == {"cancel", "take_request", "with_request", "Responder::request"}

\* `side` took one step of its call; the step began the call, ended it, or both.
Track(side, began, ended) ==
    LET me    == IF side = "rq" THEN requester' ELSE responder'
        mine  == IF side = "rq" THEN requester ELSE responder
        other == IF side = "rq" THEN responder ELSE requester
        peer  == IF side = "rq" THEN "rp" ELSE "rq"
        quiet == other.pc = "idle"
        next  == Append(script.done, Call(me.op, me.arg))
        s1    == IF ~began THEN script
                 ELSE IF script.on /\ quiet /\ OnScript(next) THEN script
                 ELSE IF state = Idle /\ quiet /\ OnScript(<<Call(me.op, me.arg)>>)
                      THEN [on |-> TRUE, done |-> <<>>]
                 ELSE NoScript
        r1    == IF ~began THEN race
                 ELSE IF me.op \in RaceOps /\ race[side] = "no" /\ race[peer] # "no"
                      THEN [race EXCEPT ![side] = "run"]
                 ELSE IF me.op \in RaceOps /\ state = Requested /\ quiet
                      THEN [NoRace EXCEPT ![side] = "run"]
                 ELSE NoRace
    IN  /\ failed' = [failed EXCEPT
                          ![side] = IF ~ended THEN Repeats(mine, me, @)
                                    ELSE IF me.res \in Failed THEN Found(me.obs)
                                    ELSE "no",
                          ![peer] = IF state' # state THEN "no" ELSE @]
        /\ script' = IF ended /\ s1.on
                     THEN [s1 EXCEPT !.done = Append(s1.done, Call(me.op, me.arg))]
                     ELSE s1
        /\ race' = IF ended /\ r1[side] = "run" THEN [r1 EXCEPT ![side] = "done"] ELSE r1
        /\ canceled' = IF ended /\ me.op = "cancel" /\ me.res = "Ok" THEN TRUE
                       ELSE IF state' = Requested /\ state # Requested THEN FALSE
                       ELSE canceled
        /\ LET a == IF state' = Responded /\ state # Responded
                          THEN [answer EXCEPT !.fresh = TRUE, !.asked = FALSE, !.peeked = {}]
                     ELSE IF state' = Requested /\ state # Requested
                          THEN [answer EXCEPT !.asked = TRUE, !.draft = {}, !.got = FALSE]
                     ELSE IF ended /\ me.op \in ObtainOps /\ me.res \in {"Ok", "Some"}
                          THEN [answer EXCEPT !.got = TRUE]
                     ELSE IF ended /\ me.op \in {"with_response_mut", "response_mut"}
                                   /\ me.res = "Ok"
                          THEN [answer EXCEPT !.draft = me.arg]
                     ELSE IF ended /\ me.op = "take_response" /\ me.res = "Some"
                          THEN [answer EXCEPT !.fresh = FALSE, !.peeked = {}]
                     ELSE IF ended /\ me.op \in {"with_response", "response"} /\ me.res = "Ok"
                          THEN [answer EXCEPT !.peeked = me.val]
                     ELSE answer
           IN  answer' = IF state' \in {BuildingResponse, Canceled} THEN a
                         ELSE IF state' \in {Idle, BuildingRequest}
                         THEN [a EXCEPT !.draft = {}, !.got = FALSE]
                         ELSE [a EXCEPT !.draft = {}]
        /\ reference' = IF /\ reference = "none" /\ side = "rp" /\ ended
                           /\ me.op = "Responder::request" /\ me.res = "Ok"
                        THEN "held" ELSE reference
        /\ UNCHANGED <<poolvars, channels, before>>

----------------------------------------------------------------------------
\* Requester

\* Mutant: request() without the check that State is Idle.
Requester_request_unchecked(v) ==
    /\ requester.pc = "idle"
    /\ requester' = Begin("request", {v}, "data")
    /\ UNCHANGED <<state, data, responder, sent>>
    /\ Track("rq", TRUE, FALSE)

\* Requester::request, the load of state
Requester_request(v) ==
    /\ requester.pc = "idle"
    /\ requester' = IF state = Idle
                    THEN Begin("request", {v}, "data")
                    ELSE Return(Begin("request", {v}, "idle"), "Err", {})
    /\ UNCHANGED <<state, data, responder, sent>>
    /\ Track("rq", TRUE, state # Idle)

\* Requester::request, *i = Message::from_rq(request)
Requester_request_data ==
    /\ requester.pc = "data" /\ requester.op = "request"
    /\ \E v \in requester.arg : data' = from_rq(v) /\ sent' = v
    /\ requester' = Step(requester, "store")
    /\ UNCHANGED <<state, responder>>
    /\ Track("rq", FALSE, FALSE)

\* Requester::request, state.store(Requested)
Requester_request_store ==
    /\ requester.pc = "store" /\ requester.op = "request"
    /\ state' = Requested
    /\ requester' = Return(requester, "Ok", {})
    /\ UNCHANGED <<data, responder, sent>>
    /\ Track("rq", FALSE, TRUE)

\* Mutant: a late cancel() that resets State to Idle instead of Canceled.
Requester_cancel_to_idle ==
    /\ requester.pc = "idle"
    /\ state' = transition_state(BuildingResponse, Idle)
    /\ requester' = IF transition_ok(BuildingResponse, Idle)
                    THEN Return(Begin("cancel", {}, "idle"), "Ok", {})
                    ELSE Begin("cancel", {}, "cas2")
    /\ UNCHANGED <<data, responder, sent>>
    /\ Track("rq", TRUE, transition_ok(BuildingResponse, Idle))

\* Mutant: cancel() whose first compare-and-swap expects Requested.
Requester_cancel_from_requested ==
    /\ requester.pc = "idle"
    /\ state' = transition_state(Requested, Canceled)
    /\ requester' = IF transition_ok(Requested, Canceled)
                    THEN Return(Begin("cancel", {}, "idle"), "Ok", {})
                    ELSE Begin("cancel", {}, "cas2")
    /\ UNCHANGED <<data, responder, sent>>
    /\ Track("rq", TRUE, transition_ok(Requested, Canceled))

\* Requester::cancel, transition(BuildingResponse, Canceled)
Requester_cancel ==
    /\ requester.pc = "idle"
    /\ state' = transition_state(BuildingResponse, Canceled)
    /\ requester' = IF transition_ok(BuildingResponse, Canceled)
                    THEN Return(Begin("cancel", {}, "idle"), "Ok", {})
                    ELSE Begin("cancel", {}, "cas2")
    /\ UNCHANGED <<data, responder, sent>>
    /\ Track("rq", TRUE, transition_ok(BuildingResponse, Canceled))

\* Mutant: cancel() that swaps Idle into State without comparing.
Requester_cancel_swap ==
    /\ requester.pc = "cas2" /\ requester.op = "cancel"
    /\ state' = Idle
    /\ requester' = Read(requester, "data")
    /\ UNCHANGED <<data, responder, sent>>
    /\ Track("rq", FALSE, FALSE)

\* Mutant: cancel() that takes the request back and leaves State Requested.
Requester_cancel_keep ==
    /\ requester.pc = "cas2" /\ requester.op = "cancel"
    /\ state' = transition_state(Requested, Requested)
    /\ requester' = IF transition_ok(Requested, Requested)
                    THEN Read(requester, "data")
                    ELSE Return(Read(requester, "idle"), "Err", {})
    /\ UNCHANGED <<data, responder, sent>>
    /\ Track("rq", FALSE, ~transition_ok(Requested, Requested))

\* Mutant: cancel() that tries its second transition again until it succeeds.
Requester_cancel_retry ==
    /\ requester.pc = "cas2" /\ requester.op = "cancel"
    /\ state' = transition_state(Requested, Idle)
    /\ requester' = IF transition_ok(Requested, Idle)
                    THEN Read(requester, "data")
                    ELSE Read(requester, "cas2")
    /\ UNCHANGED <<data, responder, sent>>
    /\ Track("rq", FALSE, FALSE)

\* Requester::cancel, transition(Requested, Idle)
Requester_cancel_cas2 ==
    /\ requester.pc = "cas2" /\ requester.op = "cancel"
    /\ state' = transition_state(Requested, Idle)
    /\ requester' = IF transition_ok(Requested, Idle)
                    THEN Read(requester, "data")
                    ELSE Return(Read(requester, "idle"), "Err", {})
    /\ UNCHANGED <<data, responder, sent>>
    /\ Track("rq", FALSE, ~transition_ok(Requested, Idle))

\* Requester::cancel, i.take_rq()
Requester_cancel_data ==
    /\ requester.pc = "data" /\ requester.op = "cancel"
    /\ data' = MessageNone
    /\ requester' = IF rq_arm(data) THEN Return(requester, "Ok", data.val) ELSE Panic(requester)
    /\ UNCHANGED <<state, responder, sent>>
    /\ Track("rq", FALSE, TRUE)

\* Requester::with_response and Requester::response, transition(Responded, Responded)
Requester_with_response(op) ==
    /\ requester.pc = "idle"
    /\ state' = transition_state(Responded, Responded)
    /\ requester' = IF transition_ok(Responded, Responded)
                    THEN Begin(op, {}, "data")
                    ELSE Return(Begin(op, {}, "idle"), "Err", {})
    /\ UNCHANGED <<data, responder, sent>>
    /\ Track("rq", TRUE, ~transition_ok(Responded, Responded))

\* Requester::with_response and Requester::response, i.rp_ref()
Requester_with_response_data ==
    /\ requester.pc = "data" /\ requester.op \in {"with_response", "response"}
    /\ requester' = IF rp_arm(data) THEN Return(requester, "Ok", data.val) ELSE Panic(requester)
    /\ UNCHANGED <<state, data, responder, sent>>
    /\ Track("rq", FALSE, TRUE)

\* Mutant: take_response() with the transition of with_response().
Requester_take_response_peek ==
    /\ requester.pc = "idle"
    /\ state' = transition_state(Responded, Responded)
    /\ requester' = IF transition_ok(Responded, Responded)
                    THEN Begin("take_response", {}, "data")
                    ELSE Return(Begin("take_response", {}, "idle"), "None", {})
    /\ UNCHANGED <<data, responder, sent>>
    /\ Track("rq", TRUE, ~transition_ok(Responded, Responded))

\* Mutant: take_response() that returns a copy of the response and consumes nothing.
Requester_take_response_clone ==
    /\ requester.pc = "idle"
    /\ requester' = IF state = Responded /\ rp_arm(data)
                    THEN Return(Begin("take_response", {}, "idle"), "Some", data.val)
                    ELSE Return(Begin("take_response", {}, "idle"), "None", {})
    /\ UNCHANGED <<state, data, responder, sent>>
    /\ Track("rq", TRUE, TRUE)

\* Requester::take_response, transition(Responded, Idle)
Requester_take_response ==
    /\ requester.pc = "idle"
    /\ state' = transition_state(Responded, Idle)
    /\ requester' = IF transition_ok(Responded, Idle)
                    THEN Begin("take_response", {}, "data")
                    ELSE Return(Begin("take_response", {}, "idle"), "None", {})
    /\ UNCHANGED <<data, responder, sent>>
    /\ Track("rq", TRUE, ~transition_ok(Responded, Idle))

\* Requester::take_response, i.take_rp()
Requester_take_response_data ==
    /\ requester.pc = "data" /\ requester.op = "take_response"
    /\ data' = MessageNone
    /\ requester' = IF rp_arm(data) THEN Return(requester, "Some", data.val) ELSE Panic(requester)
    /\ UNCHANGED <<state, responder, sent>>
    /\ Track("rq", FALSE, TRUE)

\* Requester::with_request_mut and Requester::request_mut, transition(Idle, BuildingRequest);
\* v is the value the caller leaves in the buffer
Requester_with_request_mut(op, v) ==
    /\ requester.pc = "idle"
    /\ state' = transition_state(Idle, BuildingRequest)
    /\ requester' = IF transition_ok(Idle, BuildingRequest)
                    THEN Begin(op, {v}, "data")
                    ELSE Begin(op, {v}, "cas2")
    /\ UNCHANGED <<data, responder, sent>>
    /\ Track("rq", TRUE, FALSE)

\* ... || transition(BuildingRequest, BuildingRequest)
Requester_with_request_mut_cas2 ==
    /\ requester.pc = "cas2" /\ requester.op \in {"with_request_mut", "request_mut"}
    /\ state' = transition_state(BuildingRequest, BuildingRequest)
    /\ requester' = IF transition_ok(BuildingRequest, BuildingRequest)
                    THEN Read(requester, "data")
                    ELSE Return(Read(requester, "idle"), "Err", {})
    /\ UNCHANGED <<data, responder, sent>>
    /\ Track("rq", FALSE, ~transition_ok(BuildingRequest, BuildingRequest))

\* if !i.is_request_state() { *i = Message::from_rq(Rq::default()) }; f(i.rq_mut())
\* The call exposes the buffer as it is after the lazy default, then the caller writes v.
Requester_with_request_mut_data ==
    /\ requester.pc = "data" /\ requester.op \in {"with_request_mut", "request_mut"}
    /\ LET i == IF is_request_state(data) THEN data ELSE from_rq(RqDefault)
       IN  /\ requester' = IF rq_arm(i) THEN Return(requester, "Ok", i.val) ELSE Panic(requester)
           /\ \E v \in requester.arg : data' = from_rq(v) /\ sent' = v
    /\ UNCHANGED <<state, responder>>
    /\ Track("rq", FALSE, TRUE)

\* Mutant: send_request() that, failing on an Idle channel, leaves it in BuildingRequest.
Requester_send_request_open ==
    /\ requester.pc = "idle"
    /\ state' = IF state = Idle THEN BuildingRequest ELSE state
    /\ requester' = IF state = BuildingRequest
                    THEN Begin("send_request", {}, "cas")
                    ELSE Return(Begin("send_request", {}, "idle"), "Err", {})
    /\ UNCHANGED <<data, responder, sent>>
    /\ Track("rq", TRUE, state # BuildingRequest)

\* Requester::send_request, the load of state
Requester_send_request ==
    /\ requester.pc = "idle"
    /\ requester' = IF state = BuildingRequest
                    THEN Begin("send_request", {}, "cas")
                    ELSE Return(Begin("send_request", {}, "idle"), "Err", {})
    /\ UNCHANGED <<state, data, responder, sent>>
    /\ Track("rq", TRUE, state # BuildingRequest)

\* Requester::send_request, transition(BuildingRequest, Requested)
Requester_send_request_cas ==
    /\ requester.pc = "cas" /\ requester.op = "send_request"
    /\ state' = transition_state(BuildingRequest, Requested)
    /\ requester' = IF transition_ok(BuildingRequest, Requested)
                    THEN Return(Read(requester, "idle"), "Ok", {})
                    ELSE Return(Read(requester, "idle"), "Err", {})
    /\ UNCHANGED <<data, responder, sent>>
    /\ Track("rq", FALSE, TRUE)

----------------------------------------------------------------------------
\* Responder

\* Mutant: with_request() and request() that leave State Requested.
Responder_with_request_keep(op) ==
    /\ responder.pc = "idle"
    /\ state' = transition_state(Requested, Requested)
    /\ responder' = IF transition_ok(Requested, Requested)
                    THEN Begin(op, {}, "data")
                    ELSE Return(Begin(op, {}, "idle"), "Err", {})
    /\ UNCHANGED <<data, requester, sent>>
    /\ Track("rp", TRUE, ~transition_ok(Requested, Requested))

\* Responder::with_request and Responder::request, transition(Requested, BuildingResponse)
Responder_with_request(op) ==
    /\ responder.pc = "idle"
    /\ state' = transition_state(Requested, BuildingResponse)
    /\ responder' = IF transition_ok(Requested, BuildingResponse)
                    THEN Begin(op, {}, "data")
                    ELSE Return(Begin(op, {}, "idle"), "Err", {})
    /\ UNCHANGED <<data, requester, sent>>
    /\ Track("rp", TRUE, ~transition_ok(Requested, BuildingResponse))

\* Responder::with_request and Responder::request, i.rq_ref()
Responder_with_request_data ==
    /\ responder.pc = "data" /\ responder.op \in {"with_request", "Responder::request"}
    /\ responder' = IF rq_arm(data) THEN Return(responder, "Ok", data.val) ELSE Panic(responder)
    /\ UNCHANGED <<state, data, requester, sent>>
    /\ Track("rp", FALSE, TRUE)

\* Responder::take_request, transition(Requested, BuildingResponse)
Responder_take_request ==
    /\ responder.pc = "idle"
    /\ state' = transition_state(Requested, BuildingResponse)
    /\ responder' = IF transition_ok(Requested, BuildingResponse)
                    THEN Begin("take_request", {}, "data")
                    ELSE Return(Begin("take_request", {}, "idle"), "None", {})
    /\ UNCHANGED <<data, requester, sent>>
    /\ Track("rp", TRUE, ~transition_ok(Requested, BuildingResponse))

\* Responder::take_request, i.take_rq()
Responder_take_request_data ==
    /\ responder.pc = "data" /\ responder.op = "take_request"
    /\ data' = MessageNone
    /\ responder' = IF rq_arm(data) THEN Return(responder, "Some", data.val) ELSE Panic(responder)
    /\ UNCHANGED <<state, requester, sent>>
    /\ Track("rp", FALSE, TRUE)

\* Mutant: is_canceled() that acknowledges the cancel it reports.
Responder_is_canceled_ack ==
    /\ responder.pc = "idle"
    /\ state' = transition_state(Canceled, Idle)
    /\ responder' = Return(Begin("is_canceled", {}, "idle"),
                           IF state = Canceled THEN "true" ELSE "false", {})
    /\ UNCHANGED <<data, requester, sent>>
    /\ Track("rp", TRUE, TRUE)

\* Responder::is_canceled
Responder_is_canceled ==
    /\ responder.pc = "idle"
    /\ responder' = Return(Begin("is_canceled", {}, "idle"),
                           IF state = Canceled THEN "true" ELSE "false", {})
    /\ UNCHANGED <<state, data, requester, sent>>
    /\ Track("rp", TRUE, TRUE)

\* Mutant: acknowledge_cancel() that also resets a request being answered.
Responder_acknowledge_cancel_eager ==
    /\ responder.pc = "idle"
    /\ state' = IF state \in {Canceled, BuildingResponse} THEN Idle ELSE state
    /\ responder' = Return(Begin("acknowledge_cancel", {}, "idle"),
                           IF state \in {Canceled, BuildingResponse} THEN "Ok" ELSE "Err", {})
    /\ UNCHANGED <<data, requester, sent>>
    /\ Track("rp", TRUE, TRUE)

\* Responder::acknowledge_cancel, transition(Canceled, Idle)
Responder_acknowledge_cancel ==
    /\ responder.pc = "idle"
    /\ state' = transition_state(Canceled, Idle)
    /\ responder' = Return(Begin("acknowledge_cancel", {}, "idle"),
                           IF transition_ok(Canceled, Idle) THEN "Ok" ELSE "Err", {})
    /\ UNCHANGED <<data, requester, sent>>
    /\ Track("rp", TRUE, TRUE)

\* Mutant: respond() without the check that State is BuildingResponse.
Responder_respond_unchecked(w) ==
    /\ responder.pc = "idle"
    /\ responder' = Begin("respond", {w}, "data")
    /\ UNCHANGED <<state, data, requester, sent>>
    /\ Track("rp", TRUE, FALSE)

\* Responder::respond, the load of state
Responder_respond(w) ==
    /\ responder.pc = "idle"
    /\ responder' = IF state = BuildingResponse
                    THEN Begin("respond", {w}, "data")
                    ELSE Return(Begin("respond", {w}, "idle"), "Err", {})
    /\ UNCHANGED <<state, data, requester, sent>>
    /\ Track("rp", TRUE, state # BuildingResponse)

\* Responder::respond, *i = Message::from_rp(response)
Responder_respond_data ==
    /\ responder.pc = "data" /\ responder.op = "respond"
    /\ \E w \in responder.arg : data' = from_rp(w)
    /\ responder' = Step(responder, "cas")
    /\ UNCHANGED <<state, requester, sent>>
    /\ Track("rp", FALSE, FALSE)

\* Responder::respond, transition(BuildingResponse, Responded)
Responder_respond_cas ==
    /\ responder.pc = "cas" /\ responder.op = "respond"
    /\ state' = transition_state(BuildingResponse, Responded)
    /\ responder' = IF transition_ok(BuildingResponse, Responded)
                    THEN Return(Read(responder, "idle"), "Ok", {})
                    ELSE Return(Read(responder, "idle"), "Err", {})
    /\ UNCHANGED <<data, requester, sent>>
    /\ Track("rp", FALSE, TRUE)

\* Mutant: with_response_mut() that opens the response buffer on an Idle channel.
Responder_with_response_mut_idle(op, w) ==
    /\ responder.pc = "idle"
    /\ state' = transition_state(Idle, BuildingResponse)
    /\ responder' = IF transition_ok(Idle, BuildingResponse)
                    THEN Begin(op, {w}, "data")
                    ELSE Begin(op, {w}, "cas2")
    /\ UNCHANGED <<data, requester, sent>>
    /\ Track("rp", TRUE, FALSE)

\* Responder::with_response_mut and Responder::response_mut,
\* transition(Requested, BuildingResponse); w is the value the caller leaves in the buffer
Responder_with_response_mut(op, w) ==
    /\ responder.pc = "idle"
    /\ state' = transition_state(Requested, BuildingResponse)
    /\ responder' = IF transition_ok(Requested, BuildingResponse)
                    THEN Begin(op, {w}, "data")
                    ELSE Begin(op, {w}, "cas2")
    /\ UNCHANGED <<data, requester, sent>>
    /\ Track("rp", TRUE, FALSE)

\* Mutant: with_response_mut() that re-enters from Responded.
Responder_with_response_mut_reopen ==
    /\ responder.pc = "cas2" /\ responder.op \in {"with_response_mut", "response_mut"}
    /\ state' = transition_state(Responded, BuildingResponse)
    /\ responder' = IF transition_ok(Responded, BuildingResponse)
                    THEN Read(responder, "data")
                    ELSE Return(Read(responder, "idle"), "Err", {})
    /\ UNCHANGED <<data, requester, sent>>
    /\ Track("rp", FALSE, ~transition_ok(Responded, BuildingResponse))

\* ... || transition(BuildingResponse, BuildingResponse)
Responder_with_response_mut_cas2 ==
    /\ responder.pc = "cas2" /\ responder.op \in {"with_response_mut", "response_mut"}
    /\ state' = transition_state(BuildingResponse, BuildingResponse)
    /\ responder' = IF transition_ok(BuildingResponse, BuildingResponse)
                    THEN Read(responder, "data")
                    ELSE Return(Read(responder, "idle"), "Err", {})
    /\ UNCHANGED <<data, requester, sent>>
    /\ Track("rp", FALSE, ~transition_ok(BuildingResponse, BuildingResponse))

\* Mutant: with_response_mut() that writes the default on every entry.
Responder_with_response_mut_reset ==
    /\ responder.pc = "data" /\ responder.op \in {"with_response_mut", "response_mut"}
    /\ responder' = Return(responder, "Ok", {RpDefault})
    /\ \E w \in responder.arg : data' = from_rp(w)
    /\ UNCHANGED <<state, requester, sent>>
    /\ Track("rp", FALSE, TRUE)

\* if !i.is_response_state() { *i = Message::from_rp(Rp::default()) }; f(i.rp_mut())
\* The call exposes the buffer as it is after the lazy default, then the caller writes w.
Responder_with_response_mut_data ==
    /\ responder.pc = "data" /\ responder.op \in {"with_response_mut", "response_mut"}
    /\ LET i == IF is_response_state(data) THEN data ELSE from_rp(RpDefault)
       IN  /\ responder' = IF rp_arm(i) THEN Return(responder, "Ok", i.val) ELSE Panic(responder)
           /\ \E w \in responder.arg : data' = from_rp(w)
    /\ UNCHANGED <<state, requester, sent>>
    /\ Track("rp", FALSE, TRUE)

\* Responder::send_response, the load of state
Responder_send_response ==
    /\ responder.pc = "idle"
    /\ responder' = IF state = BuildingResponse
                    THEN Begin("send_response", {}, "cas")
                    ELSE Return(Begin("send_response", {}, "idle"), "Err", {})
    /\ UNCHANGED <<state, data, requester, sent>>
    /\ Track("rp", TRUE, state # BuildingResponse)

\* Mutant: send_response() publishing Responded with a plain store.
Responder_send_response_store ==
    /\ responder.pc = "cas" /\ responder.op = "send_response"
    /\ state' = Responded
    /\ responder' = Return(Read(responder, "idle"), "Ok", {})
    /\ UNCHANGED <<data, requester, sent>>
    /\ Track("rp", FALSE, TRUE)

\* Responder::send_response, transition(BuildingResponse, Responded)
Responder_send_response_cas ==
    /\ responder.pc = "cas" /\ responder.op = "send_response"
    /\ state' = transition_state(BuildingResponse, Responded)
    /\ responder' = IF transition_ok(BuildingResponse, Responded)
                    THEN Return(Read(responder, "idle"), "Ok", {})
                    ELSE Return(Read(responder, "idle"), "Err", {})
    /\ UNCHANGED <<data, requester, sent>>
    /\ Track("rp", FALSE, TRUE)

----------------------------------------------------------------------------
\* Channel::new(), split into a Requester and a Responder (tests/loom.rs, loom_interchange)
Init ==
    /\ state = Idle
    /\ data = MessageNone
    /\ requester = NoCall
    /\ responder = NoCall
    /\ sent = RqDefault
    /\ canceled = FALSE
    /\ script = NoScript
    /\ race = NoRace
    /\ failed = NoFailed
    /\ reference = "discard"
    /\ answer = NoAnswer
    /\ requester_claimed = [ch \in Chan |-> ch = 0]
    /\ responder_claimed = [ch \in Chan |-> ch = 0]
    /\ last_claimed = 0
    /\ requesters = [ch \in Chan |-> IF ch = 0 THEN 1 ELSE 0]
    /\ responders = [ch \in Chan |-> IF ch = 0 THEN 1 ELSE 0]
    /\ thread = EmptyBag
    /\ last = NoLast
    /\ channels = NChannels
    /\ before = [free |-> Cardinality(FreeChannels), cursor |-> last_claimed]

Next ==
    \/ \E v \in Rq : Requester_request(v)
    \/ Requester_request_data
    \/ Requester_request_store
    \/ Requester_cancel
    \/ Requester_cancel_cas2
    \/ Requester_cancel_data
    \/ \E op \in {"with_response", "response"} : Requester_with_response(op)
    \/ Requester_with_response_data
    \/ Requester_take_response
    \/ Requester_take_response_data
    \/ \E op \in {"with_request_mut", "request_mut"}, v \in Rq : Requester_with_request_mut(op, v)
    \/ Requester_with_request_mut_cas2
    \/ Requester_with_request_mut_data
    \/ Requester_send_request
    \/ Requester_send_request_cas
    \/ \E op \in {"with_request", "Responder::request"} : Responder_with_request(op)
    \/ Responder_with_request_data
    \/ Responder_take_request
    \/ Responder_take_request_data
    \/ Responder_is_canceled
    \/ Responder_acknowledge_cancel
    \/ \E w \in Rp : Responder_respond(w)
    \/ Responder_respond_data
    \/ Responder_respond_cas
    \/ \E op \in {"with_response_mut", "response_mut"}, w \in Rp : Responder_with_response_mut(op, w)
    \/ Responder_with_response_mut_cas2
    \/ Responder_with_response_mut_data
    \/ Responder_send_response
    \/ Responder_send_response_cas

Spec == Init /\ [][Next]_vars

----------------------------------------------------------------------------
\* Claiming and releasing the ends of channels

\* A caller that is in no call can start one.
CallerIdle == BagCardinality(thread) < NCallers

\* History: a call in progress is no longer alone.
Disturbed(c) == [c EXCEPT !.solo = FALSE, !.free = {}]

\* The calls in progress after a caller that was in no call has acted.
Others == BagOfAll(Disturbed, thread)

\* The calls in progress after the caller at c has acted and is now at c2.
Moves(c, c2) == BagOfAll(Disturbed, thread (-) SetToBag({c})) (+) SetToBag({c2})

\* The calls in progress after the call of the caller at c has returned.
Leaves(c) == BagOfAll(Disturbed, thread (-) SetToBag({c}))

\* Channel::split on channel Head(c.todo) returned None, to split()'s caller or to claim():
\* claim() goes on with the next channel, and returns None after the last.
split_fails(c) ==
    IF Len(c.todo) = 1 THEN Leaves(c)
    ELSE Moves(c, [c EXCEPT !.pc = "requester", !.todo = Tail(c.todo)])

\* History of split_fails.
split_failed(c, rolled) ==
    IF Len(c.todo) = 1
    THEN Returns(c.op, Head(c.todo), "None", rolled /\ c.op = "split", c.solo, c.free)
    ELSE NoLast

\* Mutant: requester() that sets the flag without looking at it.
Channel_requester_unchecked(ch) ==
    /\ CallerIdle
    /\ requester_claimed' = [requester_claimed EXCEPT ![ch] = TRUE]
    /\ requesters' = [requesters EXCEPT ![ch] = @ + 1]
    /\ thread' = Others
    /\ last' = Returns("requester", ch, "Some", FALSE, FALSE, {})
    /\ UNCHANGED <<responder_claimed, responders, last_claimed, chanvars>>

\* Channel::requester, requester_claimed.compare_exchange(false, true)
Channel_requester(ch) ==
    /\ CallerIdle
    /\ requester_claimed' = [requester_claimed EXCEPT ![ch] = TRUE]
    /\ requesters' = IF requester_claimed[ch] THEN requesters
                     ELSE [requesters EXCEPT ![ch] = @ + 1]
    /\ thread' = Others
    /\ last' = Returns("requester", ch, IF requester_claimed[ch] THEN "None" ELSE "Some",
                       FALSE, FALSE, {})
    /\ UNCHANGED <<responder_claimed, responders, last_claimed, chanvars>>

\* Channel::responder, responder_claimed.compare_exchange(false, true)
Channel_responder(ch) ==
    /\ CallerIdle
    /\ responder_claimed' = [responder_claimed EXCEPT ![ch] = TRUE]
    /\ responders' = IF responder_claimed[ch] THEN responders
                     ELSE [responders EXCEPT ![ch] = @ + 1]
    /\ thread' = Others
    /\ last' = Returns("responder", ch, IF responder_claimed[ch] THEN "None" ELSE "Some",
                       FALSE, FALSE, {})
    /\ UNCHANGED <<requester_claimed, requesters, last_claimed, chanvars>>

\* Drop for Requester, requester_claimed.store(false), of a handle a caller holds
Requester_drop(ch) ==
    /\ CallerIdle
    /\ requesters[ch] > 0
    /\ requesters' = [requesters EXCEPT ![ch] = @ - 1]
    /\ requester_claimed' = [requester_claimed EXCEPT ![ch] = FALSE]
    /\ thread' = Others
    /\ last' = NoLast
    /\ UNCHANGED <<responder_claimed, responders, last_claimed, chanvars>>

\* Drop for Responder, responder_claimed.store(false), of a handle a caller holds
Responder_drop(ch) ==
    /\ CallerIdle
    /\ responders[ch] > 0
    /\ responders' = [responders EXCEPT ![ch] = @ - 1]
    /\ responder_claimed' = [responder_claimed EXCEPT ![ch] = FALSE]
    /\ thread' = Others
    /\ last' = NoLast
    /\ UNCHANGED <<requester_claimed, requesters, last_claimed, chanvars>>

\* Channel::split, self.requester()? of a direct call of split()
Channel_split(ch) ==
    /\ CallerIdle
    /\ requester_claimed' = [requester_claimed EXCEPT ![ch] = TRUE]
    /\ IF requester_claimed[ch]
       THEN /\ thread' = Others
            /\ last' = Returns("split", ch, "None", FALSE, FALSE, {})
       ELSE /\ thread' = Others (+) SetToBag({InCall("responder", "split", <<ch>>, FALSE, {})})
            /\ last' = NoLast
    /\ UNCHANGED <<responder_claimed, requesters, responders, last_claimed, chanvars>>

\* Channel::split, self.requester()? of a call by claim()
Channel_split_requester(c) ==
    LET ch == Head(c.todo)
    IN  /\ c.pc = "requester"
        /\ requester_claimed' = [requester_claimed EXCEPT ![ch] = TRUE]
        /\ IF requester_claimed[ch]
           THEN thread' = split_fails(c) /\ last' = split_failed(c, FALSE)
           ELSE thread' = Moves(c, [c EXCEPT !.pc = "responder"]) /\ last' = NoLast
        /\ UNCHANGED <<responder_claimed, requesters, responders, last_claimed, chanvars>>

\* Channel::split, self.responder()? and, on success, the return of the pair
Channel_split_responder(c) ==
    LET ch == Head(c.todo)
    IN  /\ c.pc = "responder"
        /\ responder_claimed' = [responder_claimed EXCEPT ![ch] = TRUE]
        /\ IF responder_claimed[ch]
           THEN /\ thread' = Moves(c, [c EXCEPT !.pc = "drop"])
                /\ last' = NoLast
                /\ UNCHANGED <<requesters, responders>>
           ELSE /\ thread' = Leaves(c)
                /\ last' = Returns(c.op, ch, "Some", FALSE, c.solo, c.free)
                /\ requesters' = [requesters EXCEPT ![ch] = @ + 1]
                /\ responders' = [responders EXCEPT ![ch] = @ + 1]
        /\ UNCHANGED <<requester_claimed, last_claimed, chanvars>>

\* Mutant: split() that forgets its Requester instead of dropping it.
Channel_split_forget(c) ==
    /\ c.pc = "drop"
    /\ thread' = split_fails(c)
    /\ last' = split_failed(c, TRUE)
    /\ UNCHANGED <<requester_claimed, responder_claimed, requesters, responders,
                   last_claimed, chanvars>>

\* Channel::split, the `?` after self.responder() returned None: the Requester just
\* obtained is dropped (Drop for Requester)
Channel_split_drop(c) ==
    LET ch == Head(c.todo)
    IN  /\ c.pc = "drop"
        /\ requester_claimed' = [requester_claimed EXCEPT ![ch] = FALSE]
        /\ thread' = split_fails(c)
        /\ last' = split_failed(c, TRUE)
        /\ UNCHANGED <<responder_claimed, requesters, responders, last_claimed, chanvars>>

\* Mutant: claim() that scans from the first channel, whatever last_claimed is.
claim_order_zero(index) ==
    LET n == channels IN [k \in 1 .. n |-> k - 1]

\* Mutant: claim() that tries only the channel at last_claimed % n.
claim_order_one(index) ==
    LET n == channels IN <<index % n>>

\* Mutant: claim() without its second loop.
claim_order_first(index) ==
    LET n == channels IN [k \in 1 .. (n - (index % n)) |-> (index % n) + k - 1]

\* InterchangeRef::claim, the channels its two loops visit:
\* (index % n)..n, then 0..(index % n)
claim_order(index) ==
    LET n == channels
    IN  [k \in 1 .. (n - (index % n)) |-> (index % n) + k - 1] \o [k \in 1 .. (index % n) |-> k - 1]

\* InterchangeRef::claim, index = last_claimed.fetch_add(1)
Interchange_claim ==
    /\ CallerIdle
    /\ last_claimed < MaxClaims
    /\ last_claimed' = last_claimed + 1
    /\ IF channels = 0
       THEN \* index % n with n = 0: the remainder panics
            /\ thread' = Others
            /\ last' = Returns("claim", 0, "panic", FALSE, thread = EmptyBag, {})
       ELSE /\ thread' = Others (+) SetToBag({
                    LET alone == thread = EmptyBag
                    IN  InCall("requester", "claim", claim_order(last_claimed), alone,
                               IF alone THEN FreeChannels ELSE {})})
            /\ last' = NoLast
    /\ UNCHANGED <<requester_claimed, responder_claimed, requesters, responders, chanvars>>

\* Interchange::new: every channel is Channel::new(), nothing is claimed
InitPool ==
    /\ state = Idle
    /\ data = MessageNone
    /\ requester = NoCall
    /\ responder = NoCall
    /\ sent = RqDefault
    /\ canceled = FALSE
    /\ script = NoScript
    /\ race = NoRace
    /\ failed = NoFailed
    /\ reference = "discard"
    /\ answer = NoAnswer
    /\ requester_claimed = [ch \in Chan |-> FALSE]
    /\ responder_claimed = [ch \in Chan |-> FALSE]
    /\ last_claimed = 0
    /\ requesters = [ch \in Chan |-> 0]
    /\ responders = [ch \in Chan |-> 0]
    /\ thread = EmptyBag
    /\ last = NoLast
    /\ channels = NChannels
    /\ before = [free |-> Cardinality(FreeChannels), cursor |-> last_claimed]

NextPool ==
    \/ \E ch \in Chan : Channel_requester(ch)
    \/ \E ch \in Chan : Channel_responder(ch)
    \/ \E ch \in Chan : Requester_drop(ch)
    \/ \E ch \in Chan : Responder_drop(ch)
    \/ \E ch \in Chan : Channel_split(ch)
    \/ \E c \in BagToSet(thread) : Channel_split_requester(c)
    \/ \E c \in BagToSet(thread) : Channel_split_responder(c)
    \/ \E c \in BagToSet(thread) : Channel_split_drop(c)
    \/ Interchange_claim

SpecPool == InitPool /\ [][NextPool]_vars

----------------------------------------------------------------------------
\* Callers that only call claim(), on an Interchange some ends of which are held

\* An Interchange after any calls of requester(), responder() and claim(): each end of each
\* channel is held by a caller or free, and no call is in progress.
InitClaims ==
    /\ state = Idle
    /\ data = MessageNone
    /\ requester = NoCall
    /\ responder = NoCall
    /\ sent = RqDefault
    /\ canceled = FALSE
    /\ script = NoScript
    /\ race = NoRace
    /\ failed = NoFailed
    /\ reference = "discard"
    /\ answer = NoAnswer
    /\ requester_claimed \in [Chan -> BOOLEAN]
    /\ responder_claimed \in [Chan -> BOOLEAN]
    /\ last_claimed \in Chan
    /\ requesters = [ch \in Chan |-> IF requester_claimed[ch] THEN 1 ELSE 0]
    /\ responders = [ch \in Chan |-> IF responder_claimed[ch] THEN 1 ELSE 0]
    /\ thread = EmptyBag
    /\ last = NoLast
    /\ channels = NChannels
    /\ before = [free |-> Cardinality(FreeChannels), cursor |-> last_claimed]

\* Calls of claim() only: no handle is dropped and no end is claimed otherwise.
NextClaims ==
    \/ Interchange_claim
    \/ \E c \in BagToSet(thread) : Channel_split_requester(c)
    \/ \E c \in BagToSet(thread) : Channel_split_responder(c)
    \/ \E c \in BagToSet(thread) : Channel_split_drop(c)

SpecClaims == InitClaims /\ [][NextClaims]_vars

----------------------------------------------------------------------------
\* An Interchange<Rq, Rp, N> of any N, N = 0 included

\* Interchange::new() for any N up to NChannels, after any calls of requester(), responder()
\* and claim(): the ends of its N channels are held or free, no call is in progress.
InitSized ==
    /\ state = Idle
    /\ data = MessageNone
    /\ requester = NoCall
    /\ responder = NoCall
    /\ sent = RqDefault
    /\ canceled = FALSE
    /\ script = NoScript
    /\ race = NoRace
    /\ failed = NoFailed
    /\ reference = "discard"
    /\ answer = NoAnswer
    /\ channels \in 0 .. NChannels
    /\ requester_claimed \in [Chan -> BOOLEAN]
    /\ responder_claimed \in [Chan -> BOOLEAN]
    /\ \A ch \in Chan : ch >= channels => ~requester_claimed[ch] /\ ~responder_claimed[ch]
    /\ last_claimed \in Chan
    /\ requesters = [ch \in Chan |-> IF requester_claimed[ch] THEN 1 ELSE 0]
    /\ responders = [ch \in Chan |-> IF responder_claimed[ch] THEN 1 ELSE 0]
    /\ thread = EmptyBag
    /\ last = NoLast
    /\ before = [free |-> Cardinality(FreeChannels), cursor |-> last_claimed]

\* claim() and the drop of the handles it returned.
NextSized ==
    \/ Interchange_claim
    \/ \E c \in BagToSet(thread) : Channel_split_requester(c)
    \/ \E c \in BagToSet(thread) : Channel_split_responder(c)
    \/ \E c \in BagToSet(thread) : Channel_split_drop(c)
    \/ \E ch \in Chan : Requester_drop(ch)
    \/ \E ch \in Chan : Responder_drop(ch)

SpecSized == InitSized /\ [][NextSized]_vars

----------------------------------------------------------------------------
\* A channel whose handles are released in the middle of a transaction and claimed again

\* The thread has dropped its handle: it makes no further call.
Dropped == [NoCall EXCEPT !.pc = "dropped"]

Released == requester.pc = "dropped" /\ responder.pc = "dropped"

\* History: once both handles of the transaction are dropped, its history is over.
Forget(other) ==
    IF other.pc = "dropped"
    THEN /\ sent' = RqDefault /\ canceled' = FALSE /\ script' = NoScript
         /\ race' = NoRace /\ answer' = NoAnswer /\ failed' = NoFailed
         /\ UNCHANGED <<reference, channels, before>>
    ELSE UNCHANGED <<sent, canceled, script, race, answer, failed, reference, channels,
                    before>>

\* Mutant: dropping the Requester also abandons the transaction.
Requester_release_reset ==
    /\ requester.pc = "idle"
    /\ requester' = Dropped
    /\ requester_claimed' = [requester_claimed EXCEPT ![0] = FALSE]
    /\ requesters' = [requesters EXCEPT ![0] = @ - 1]
    /\ state' = Idle
    /\ Forget(responder)
    /\ UNCHANGED <<data, responder, responder_claimed, responders, last_claimed, thread,
                   last>>

\* Drop for Requester, requester_claimed.store(false), by the thread of the transaction
Requester_release ==
    /\ requester.pc = "idle"
    /\ requester' = Dropped
    /\ requester_claimed' = [requester_claimed EXCEPT ![0] = FALSE]
    /\ requesters' = [requesters EXCEPT ![0] = @ - 1]
    /\ Forget(responder)
    /\ UNCHANGED <<state, data, responder, responder_claimed, responders, last_claimed,
                   thread, last>>

\* Drop for Responder, responder_claimed.store(false), by the thread of the transaction
Responder_release ==
    /\ responder.pc = "idle"
    /\ responder' = Dropped
    /\ responder_claimed' = [responder_claimed EXCEPT ![0] = FALSE]
    /\ responders' = [responders EXCEPT ![0] = @ - 1]
    /\ Forget(requester)
    /\ UNCHANGED <<state, data, requester, requester_claimed, requesters, last_claimed,
                   thread, last>>

\* The two threads of a transaction on channel 0 of an Interchange, which drop their
\* handles at any point between two calls; the callers of the Interchange act after that.
NextShared ==
    \/ Next
    \/ Requester_release
    \/ Responder_release
    \/ Released /\ NextPool

SpecShared == Init /\ [][NextShared]_vars

----------------------------------------------------------------------------
\* A responder that keeps the reference Responder::request() returned, and the queries

\* Requester::state, state.load
Requester_state ==
    /\ requester.pc = "idle"
    /\ requester' = Return(Begin("state", {}, "idle"), "Ok", {state})
    /\ UNCHANGED <<state, data, responder, sent>>
    /\ Track("rq", TRUE, TRUE)

\* Responder::state, state.load
Responder_state ==
    /\ responder.pc = "idle"
    /\ responder' = Return(Begin("state", {}, "idle"), "Ok", {state})
    /\ UNCHANGED <<state, data, requester, sent>>
    /\ Track("rp", TRUE, TRUE)

\* The responder stops using the &Rq it got from Responder::request(): the shared borrow
\* of the Responder ends.
Responder_request_end ==
    /\ reference = "held" /\ responder.pc = "idle"
    /\ reference' = "none"
    /\ UNCHANGED <<state, data, requester, responder, sent, canceled, script, race, answer,
                   failed, channels, before, poolvars>>

\* Channel::new(), split into a Requester and a Responder whose caller keeps references
InitBorrow ==
    /\ state = Idle
    /\ data = MessageNone
    /\ requester = NoCall
    /\ responder = NoCall
    /\ sent = RqDefault
    /\ canceled = FALSE
    /\ script = NoScript
    /\ race = NoRace
    /\ failed = NoFailed
    /\ reference = "none"
    /\ answer = NoAnswer
    /\ requester_claimed = [ch \in Chan |-> ch = 0]
    /\ responder_claimed = [ch \in Chan |-> ch = 0]
    /\ last_claimed = 0
    /\ requesters = [ch \in Chan |-> IF ch = 0 THEN 1 ELSE 0]
    /\ responders = [ch \in Chan |-> IF ch = 0 THEN 1 ELSE 0]
    /\ thread = EmptyBag
    /\ last = NoLast
    /\ channels = NChannels
    /\ before = [free |-> Cardinality(FreeChannels), cursor |-> last_claimed]

\* The methods of Requester; those of Responder that take &self, callable while the
\* reference is held; those that take &mut self, callable only when it is not.
NextBorrow ==
    \/ \E v \in Rq : Requester_request(v)
    \/ Requester_request_data
    \/ Requester_request_store
    \/ Requester_cancel
    \/ Requester_cancel_cas2
    \/ Requester_cancel_data
    \/ \E op \in {"with_response", "response"} : Requester_with_response(op)
    \/ Requester_with_response_data
    \/ Requester_take_response
    \/ Requester_take_response_data
    \/ \E op \in {"with_request_mut", "request_mut"}, v \in Rq : Requester_with_request_mut(op, v)
    \/ Requester_with_request_mut_cas2
    \/ Requester_with_request_mut_data
    \/ Requester_send_request
    \/ Requester_send_request_cas
    \/ Requester_state
    \/ Responder_state
    \/ \E op \in {"with_request", "Responder::request"} : Responder_with_request(op)
    \/ Responder_with_request_data
    \/ Responder_is_canceled
    \/ Responder_acknowledge_cancel
    \/ Responder_request_end
    \/ reference # "held" /\ Responder_take_request
    \/ Responder_take_request_data
    \/ reference # "held" /\ \E w \in Rp : Responder_respond(w)
    \/ Responder_respond_data
    \/ Responder_respond_cas
    \/ reference # "held" /\ \E op \in {"with_response_mut", "response_mut"}, w \in Rp :
                                  Responder_with_response_mut(op, w)
    \/ Responder_with_response_mut_cas2
    \/ Responder_with_response_mut_data
    \/ reference # "held" /\ Responder_send_response
    \/ Responder_send_response_cas

SpecBorrow == InitBorrow /\ [][NextBorrow]_vars

----------------------------------------------------------------------------
\* Properties

Quiet == requester.pc = "idle" /\ responder.pc = "idle"

\* The calls of s have been made one after the other from an Idle channel, the last has returned.
At(s) == script.on /\ script.done = s /\ Quiet

Returned(c, op) == c.pc = "idle" /\ c.op = op

\* C1: the two sides are never both at an access to the payload slot.
C1_NoConcurrentSlotAccess == ~(requester.pc = "data" /\ responder.pc = "data")

C1_Witness ==
    /\ responder.pc = "data" /\ responder.op = "respond"
    /\ requester.pc = "cas2" /\ requester.op = "cancel"

\* C2: whenever State = Responded the slot holds a response, and no extraction panics.
C2_RespondedHoldsResponse ==
    /\ state = Responded => is_response_state(data)
    /\ requester.pc # "panicked"
    /\ responder.pc # "panicked"

\* C3: whenever State = Requested the slot holds the request the requester wrote last,
\* and no extraction of a request meets another tag.
C3_RequestedHoldsSentRequest ==
    /\ state = Requested => data = from_rq(sent)
    /\ requester.op = "cancel" => requester.res # "panic"
    /\ responder.op \in {"with_request", "Responder::request", "take_request"} => responder.res # "panic"

C3_Witness ==
    /\ state = Requested /\ data = from_rq(1)
    /\ Returned(requester, "send_request") /\ requester.res = "Ok"
    /\ Returned(responder, "acknowledge_cancel") /\ responder.res = "Ok"

\* C4: between calls, a request is in the slot only in BuildingRequest, Requested or
\* BuildingResponse, and a response only in BuildingResponse or Responded.
C4_SlotTagFollowsState ==
    Quiet =>
        /\ is_request_state(data) => state \in {BuildingRequest, Requested, BuildingResponse}
        /\ is_response_state(data) => state \in {BuildingResponse, Responded}

\* C5: request(v), take_request(), respond(w), take_response() on an Idle channel: every call
\* succeeds, the responder gets v, the requester gets w, State ends Idle; the same for
\* with_request_mut + send_request and with_response_mut + send_response.
C5_RoundTrip ==
    \A v \in Rq, w \in Rp :
        LET a == RoundTrip(v, w)
            b == RoundTripInPlace(v, w)
        IN  /\ At(SubSeq(a, 1, 1)) => requester.res = "Ok" /\ state = Requested
            /\ At(SubSeq(a, 1, 2)) => responder.res = "Some" /\ responder.val = {v}
            /\ At(SubSeq(a, 1, 3)) => responder.res = "Ok"
            /\ At(a) => requester.res = "Some" /\ requester.val = {w} /\ state = Idle
            /\ At(SubSeq(b, 1, 1)) => requester.res = "Ok"
            /\ At(SubSeq(b, 1, 2)) => requester.res = "Ok" /\ state = Requested
            /\ At(SubSeq(b, 1, 3)) => responder.res = "Some" /\ responder.val = {v}
            /\ At(SubSeq(b, 1, 4)) => responder.res = "Ok"
            /\ At(SubSeq(b, 1, 5)) => responder.res = "Ok"
            /\ At(b) => requester.res = "Some" /\ requester.val = {w} /\ state = Idle

C5_Witness == At(RoundTrip(1, 1)) \/ At(RoundTripInPlace(1, 1))

\* C6: request(v), cancel(), take_request() on an Idle channel: cancel() returns Some(v),
\* take_request() returns nothing, State is Idle.
C6_CancelBeforeTake ==
    \A v \in Rq :
        LET a == CancelBeforeTake(v)
        IN  /\ At(SubSeq(a, 1, 2)) => requester.res = "Ok" /\ requester.val = {v} /\ state = Idle
            /\ At(a) => responder.res = "None" /\ responder.val = {} /\ state = Idle

C6_Witness == At(CancelBeforeTake(1))

\* C7: request(v), take_request(), cancel(), is_canceled(), respond(w), acknowledge_cancel()
\* on an Idle channel: cancel() returns Ok(None), is_canceled() is true, respond fails,
\* acknowledge_cancel() succeeds and State is Idle.
C7_CancelAfterTake ==
    \A v \in Rq, w \in Rp :
        LET a == CancelAfterTake(v, w)
        IN  /\ At(SubSeq(a, 1, 2)) => responder.res = "Some"
            /\ At(SubSeq(a, 1, 3)) => requester.res = "Ok" /\ requester.val = {}
            /\ At(SubSeq(a, 1, 4)) => responder.res = "true"
            /\ At(SubSeq(a, 1, 5)) => responder.res = "Err" /\ state = Canceled
            /\ At(a) => responder.res = "Ok" /\ state = Idle

C7_Witness == At(CancelAfterTake(1, 1))

\* C8: once cancel() has returned Ok and until the next request is published, no respond()
\* or send_response() returns Ok and no take_response(), with_response() or response()
\* returns a response.
C8_CanceledNeverAnswered ==
    [][canceled =>
        /\ ~(/\ responder.pc # "idle" /\ responder'.pc = "idle"
             /\ responder'.op \in {"respond", "send_response"} /\ responder'.res = "Ok")
        /\ ~(/\ requester.pc # "idle" /\ requester'.pc = "idle"
             /\ requester'.op \in {"take_response", "with_response", "response"}
             /\ requester'.res \in {"Some", "Ok"})
        /\ state' # Responded]_vars

C8_Witness ==
    /\ canceled
    /\ Returned(responder, "respond") /\ responder.res = "Err"
    /\ responder.obs = <<BuildingResponse, Canceled>>

\* C9: a cancel() and a take_request()/with_request() started on a Requested channel: once
\* both have returned, exactly one of them has obtained the request, and any payload
\* either of them returned is the value sent.
C9_RaceHandsRequestToOneSide ==
    (race.rq = "done" /\ race.rp = "done") =>
        LET rqGot == requester.res = "Ok" /\ requester.val # {}
            rpGot == responder.res \in {"Ok", "Some"}
        IN  /\ rqGot # rpGot
            /\ rqGot => requester.val = {sent}
            /\ rpGot => responder.val = {sent}
            /\ ~rpGot => responder.val = {}
            /\ requester.res # "panic" /\ responder.res # "panic"

C9_Witness ==
    /\ race.rq = "done" /\ race.rp = "done"
    /\ requester.obs = <<Requested, BuildingResponse>>
    /\ responder.val = {1}

CancelFailures ==
    {<<Idle, Idle>>, <<BuildingRequest, BuildingRequest>>, <<Responded, Responded>>,
     <<Canceled, Canceled>>, <<Canceled, Idle>>,
     <<Requested, BuildingResponse>>, <<Requested, Responded>>}

RqReturns == requester'.pc = "idle" /\ (requester.pc # "idle" \/ requester' # requester)

\* C11: take_response() returns a response only if one was published and not yet taken, and
\* a response is published only after a request was published since the last response.
C11_NoDoubleDelivery ==
    [][/\ (RqReturns /\ requester'.op = "take_response" /\ requester'.res = "Some")
              => answer.fresh /\ ~answer'.fresh
       /\ (state' = Responded /\ state # Responded) => answer.asked]_vars

C11_Witness ==
    /\ Returned(requester, "take_response") /\ requester.res = "None"
    /\ state = Idle /\ sent = 1 /\ ~answer.asked /\ ~answer.fresh
    /\ Returned(responder, "respond") /\ responder.res = "Ok"

\* C12: once with_response() or response() has returned a response, no step of the responder
\* changes State or the slot, every with_response() and response() returns the same response,
\* and take_response() returns it.
C12_RespondedStable ==
    [][answer.peeked # {} =>
        /\ responder' # responder => state' = state /\ data' = data
        /\ requester'.pc # "panicked"
        /\ (RqReturns /\ requester'.op \in {"with_response", "response"})
               => requester'.res = "Ok" /\ requester'.val = answer.peeked
        /\ (RqReturns /\ requester'.op = "take_response")
               => requester'.res = "Some" /\ requester'.val = answer.peeked]_vars

C12_Witness ==
    /\ answer.peeked = {1}
    /\ Returned(requester, "response") /\ requester.res = "Ok" /\ requester.val = {1}
    /\ Returned(responder, "with_response_mut") /\ responder.res = "Err"
    /\ responder.obs = <<Responded, Responded>>

\* The changes of State the claim allows.
Edges ==
    {<<Idle, BuildingRequest>>, <<Idle, Requested>>, <<BuildingRequest, Requested>>,
     <<Requested, BuildingResponse>>, <<BuildingResponse, Responded>>, <<Responded, Idle>>,
     <<Requested, Idle>>, <<BuildingResponse, Canceled>>, <<Canceled, Idle>>}

\* C17: every change of State is one of Edges.
C17_StateEdges == [][state' # state => <<state, state'>> \in Edges]_vars

C17_Witness ==
    /\ state = Idle /\ canceled
    /\ Returned(responder, "acknowledge_cancel") /\ responder.res = "Ok"
    /\ responder.obs = <<Canceled>>

\* C18: request(v) returns Ok exactly when it read State = Idle; it then has written v into
\* the slot and stored Requested; otherwise it returns Err and changes neither State nor slot.
C18_RequestIffIdle ==
    [][(RqReturns /\ requester'.op = "request") =>
        IF requester'.obs = <<Idle>>
        THEN /\ requester'.res = "Ok"
             /\ state' = Requested
             /\ \E v \in requester'.arg : data' = from_rq(v)
        ELSE /\ requester'.res = "Err"
             /\ state' = state /\ data' = data]_vars

C18_Witness ==
    /\ Returned(requester, "request") /\ requester.res = "Err" /\ requester.arg = {1}
    /\ requester.obs = <<Responded>> /\ state = Responded /\ data = from_rp(1)

\* C19: a rejected request(v) gives v back to the caller.
C19_RejectedRequestReturned ==
    (Returned(requester, "request") /\ requester.res = "Err") => requester.val = requester.arg

\* C20: with_request_mut() and request_mut() entered from Idle expose the default request,
\* entered from BuildingRequest the value the last mutation left, and fail from any other State.
C20_LazyDefaultRequest ==
    [][(RqReturns /\ requester'.op \in {"with_request_mut", "request_mut"}) =>
        IF requester'.obs[1] = Idle
        THEN requester'.res = "Ok" /\ requester'.val = {RqDefault}
        ELSE IF requester'.obs[1] = BuildingRequest
        THEN requester'.res = "Ok" /\ requester'.val = {sent}
        ELSE requester'.res = "Err"]_vars

\* The callers of split() or claim() that have obtained a Requester of channel ch and
\* have not yet returned or dropped it; those among them whose call can still succeed.
Obtained(ch) ==
    {c \in BagToSet(thread) : c.pc \in {"responder", "drop"} /\ Head(c.todo) = ch}
CanSucceed(ch) ==
    {c \in BagToSet(thread) : c.pc = "responder" /\ Head(c.todo) = ch}

\* The live Requester and Responder handles of a channel: those callers hold, and the
\* Requesters that calls of split() in progress have obtained.
LiveRq(ch) == requesters[ch] + BagCardinality([c \in Obtained(ch) |-> CopiesIn(c, thread)])
LiveRp(ch) == responders[ch]

\* A call of op on channel ch returns in this step.
ClaimReturns(op, ch) == last'.op = op /\ last'.ch = ch

\* C13: a channel never has more than one live Requester or more than one live Responder;
\* an end is claimed exactly while a handle of it is live; a requester() or responder() that
\* has just returned None found a live handle of that end, and one that has just returned
\* a handle holds the only one.
C13_HandleExclusivity ==
    \A ch \in Chan :
        /\ LiveRq(ch) <= 1 /\ LiveRp(ch) <= 1
        /\ requester_claimed[ch] <=> LiveRq(ch) = 1
        /\ responder_claimed[ch] <=> LiveRp(ch) = 1
        /\ (last.op = "requester" /\ last.ch = ch) =>
               IF last.res = "Some" THEN requesters[ch] = 1 ELSE LiveRq(ch) = 1
        /\ (last.op = "responder" /\ last.ch = ch) =>
               IF last.res = "Some" THEN responders[ch] = 1 ELSE LiveRp(ch) = 1

C13_Witness ==
    \E ch \in Chan :
        /\ last = Returns("requester", ch, "None", FALSE, FALSE, {})
        /\ requesters[ch] = 1 /\ requester_claimed[ch]
        /\ thread = EmptyBag

\* C14: requester() returns None only while a caller holds a Requester of the channel, or
\* a split() that can still succeed has obtained one; never because of a split() that failed.
C14_NoSpuriousClaimFailure ==
    [][\A ch \in Chan :
        (ClaimReturns("requester", ch) /\ last'.res = "None") =>
            requesters[ch] >= 1 \/ CanSucceed(ch) # {}]_vars

\* A split() returns None in this step, after it had obtained the Requester of channel ch.
SplitGivesUp(ch) == ClaimReturns("split", ch) /\ last'.res = "None" /\ last'.rolled

\* C15 as stated: after such a split() has returned None, requester_claimed is still true.
C15_RequesterClaimKept ==
    [][\A ch \in Chan : SplitGivesUp(ch) => requester_claimed'[ch]]_vars

\* C15: when split() returns None because the responder end is taken, the Requester it had
\* obtained has been dropped: requester_claimed is false, no Requester of the channel is
\* live, and a requester() that finds it so succeeds.
C15_RequesterClaimRolledBack ==
    [][\A ch \in Chan :
        /\ SplitGivesUp(ch) => ~requester_claimed'[ch] /\ LiveRq(ch)' = 0
        /\ (ClaimReturns("requester", ch) /\ ~requester_claimed[ch]) => last'.res = "Some"]_vars

C15_Witness ==
    /\ last.op = "split" /\ last.res = "None" /\ last.rolled
    /\ ~requester_claimed[last.ch] /\ requesters[last.ch] = 0
    /\ responder_claimed[last.ch] /\ responders[last.ch] = 1
    /\ thread = EmptyBag

RpReturns == responder'.pc = "idle" /\ (responder.pc # "idle" \/ responder' # responder)

\* C21: with_response_mut() and response_mut() that find State Requested, or BuildingResponse
\* with no response built yet for the pending request, expose the default response; a
\* re-entry in BuildingResponse exposes the value the last mutation left; entered in Idle,
\* BuildingRequest, Responded or Canceled they fail.
C21_LazyDefaultResponse ==
    [][(RpReturns /\ responder'.op \in {"with_response_mut", "response_mut"}) =>
        LET obs == responder'.obs
        IN  IF obs[1] = Requested
            THEN responder'.res = "Ok" /\ responder'.val = {RpDefault}
            ELSE IF obs = <<BuildingResponse, BuildingResponse>>
            THEN /\ responder'.res = "Ok"
                 /\ responder'.val = IF answer.draft = {} THEN {RpDefault} ELSE answer.draft
            ELSE responder'.res = "Err"]_vars

C21_Witness ==
    /\ Returned(responder, "with_response_mut") /\ responder.res = "Ok"
    /\ responder.obs = <<BuildingResponse, BuildingResponse>>
    /\ responder.val = {1} /\ responder.arg = {0} /\ answer.draft = {0}

\* C22: send_request() returns Ok exactly when it read State = BuildingRequest, and has then
\* set State to Requested; send_response() returns Ok exactly when it read BuildingResponse
\* and State was still BuildingResponse at its compare-and-swap, and has then set State to
\* Responded; a call of either that returns Err has not changed State.
C22_SendOutcome ==
    [][/\ (RqReturns /\ requester'.op = "send_request") =>
            IF requester'.obs[1] = BuildingRequest
            THEN requester'.res = "Ok" /\ state = BuildingRequest /\ state' = Requested
            ELSE requester'.res = "Err" /\ state' = state
       /\ (RpReturns /\ responder'.op = "send_response") =>
            IF responder'.obs = <<BuildingResponse, BuildingResponse>>
            THEN responder'.res = "Ok" /\ state = BuildingResponse /\ state' = Responded
            ELSE responder'.res = "Err" /\ state' = state
       /\ (requester'.op = "send_request" /\ requester'.pc = "cas"
           /\ requester' # requester) => state' = state
       /\ (responder'.op = "send_response" /\ responder'.pc = "cas"
           /\ responder' # responder) => state' = state]_vars

C22_Witness ==
    /\ Returned(responder, "send_response") /\ responder.res = "Err"
    /\ responder.obs = <<BuildingResponse, Canceled>> /\ state = Canceled
    /\ Returned(requester, "cancel") /\ requester.res = "Ok"

\* C23: a step that changes State from Canceled is an acknowledge_cancel() returning Ok and
\* sets State to Idle; every other call of either side that finds State = Canceled fails;
\* acknowledge_cancel() returns Ok only when it found Canceled, and otherwise changes
\* neither State nor the slot.
C23_CanceledOnlyAcknowledged ==
    [][/\ (state = Canceled /\ state' # Canceled) =>
            /\ state' = Idle /\ RpReturns
            /\ responder'.op = "acknowledge_cancel" /\ responder'.res = "Ok"
       /\ (RqReturns /\ requester'.obs[1] = Canceled) => requester'.res \in Failed
       /\ (RpReturns /\ responder'.obs[1] = Canceled
           /\ responder'.op \notin {"acknowledge_cancel", "is_canceled"})
              => responder'.res \in Failed
       /\ (RpReturns /\ responder'.op = "acknowledge_cancel") =>
            IF state = Canceled THEN responder'.res = "Ok" /\ state' = Idle
            ELSE responder'.res = "Err" /\ state' = state /\ data' = data]_vars

C23_Witness ==
    /\ state = Canceled
    /\ Returned(requester, "request") /\ requester.res = "Err" /\ requester.obs = <<Canceled>>
    /\ Returned(responder, "send_response") /\ responder.res = "Err"
    /\ responder.obs = <<Canceled>>

\* C24: a Responder::request() called while the request sent last is in the slot, neither
\* taken nor answered nor canceled (State Requested or BuildingResponse), returns it.
C24_RequestPeekRepeatable ==
    [][(/\ RpReturns /\ responder'.op = "Responder::request"
        /\ responder.pc = "idle"
        /\ state \in {Requested, BuildingResponse} /\ data = from_rq(sent))
           => responder'.res = "Ok" /\ responder'.val = {sent}]_vars

C26_ClaimAndTransactionIndependent ==
    [][/\ poolvars' # poolvars => state' = state /\ data' = data
       /\ (\/ requester' # requester /\ requester'.pc # "dropped"
           \/ responder' # responder /\ responder'.pc # "dropped")
              => UNCHANGED <<requester_claimed, responder_claimed, last_claimed>>]_vars

C26_Witness ==
    /\ Released /\ state = Requested /\ data = from_rq(1)
    /\ last.op = "claim" /\ last.ch = 0 /\ last.res = "Some"
    /\ requester_claimed[0] /\ responder_claimed[0]

\* The steps of a call in progress of each handle, and of claim() and split().
RequesterContinues ==
    \/ Requester_request_data \/ Requester_request_store
    \/ Requester_cancel_cas2 \/ Requester_cancel_data
    \/ Requester_with_response_data \/ Requester_take_response_data
    \/ Requester_with_request_mut_cas2 \/ Requester_with_request_mut_data
    \/ Requester_send_request_cas
ResponderContinues ==
    \/ Responder_with_request_data \/ Responder_take_request_data
    \/ Responder_respond_data \/ Responder_respond_cas
    \/ Responder_with_response_mut_cas2 \/ Responder_with_response_mut_data
    \/ Responder_send_response_cas
SplitContinues(c) ==
    Channel_split_requester(c) \/ Channel_split_responder(c) \/ Channel_split_drop(c)

\* A thread that is in no call.
NotInCall == {"idle", "panicked", "dropped"}

\* The steps a call of a handle has left at most: after its first access to State, a
\* second one and one access to the slot, in either order.
Remaining(c) ==
    IF c.pc \in NotInCall THEN 0
    ELSE IF c.pc = "cas2" \/ (c.pc = "data" /\ c.op \in {"request", "respond"}) THEN 2
    ELSE 1

\* The steps a call of claim() or split() has left at most: three for each channel it has
\* still to try (requester(), responder(), the drop of the Requester).
ToGo(c) ==
    3 * Len(c.todo) - (IF c.pc = "requester" THEN 0 ELSE IF c.pc = "responder" THEN 1 ELSE 2)
ToGoAll == BagCardinality([c \in BagToSet(thread) |-> CopiesIn(c, thread) * ToGo(c)])

\* Where the calls of claim() and split() in progress are.
Positions == BagOfAll(LAMBDA c : <<c.op, c.pc, c.todo>>, thread)

\* C27: every operation is non-blocking. A call in progress can always take its next step,
\* whatever the other threads did or did not do; every step of a call of a handle leaves it
\* strictly fewer steps to take, of at most three in all (two accesses to State and one to
\* the slot); every step of a claim() or split() leaves it strictly fewer steps to take, of
\* at most three for each of the N channels, each tried once.
C27_NonBlocking ==
    /\ [](/\ requester.pc \notin NotInCall => ENABLED RequesterContinues
          /\ responder.pc \notin NotInCall => ENABLED ResponderContinues
          /\ \A c \in BagToSet(thread) :
                /\ ENABLED SplitContinues(c)
                /\ Len(c.todo) \in 1 .. NChannels)
    /\ [][/\ requester' # requester =>
                IF requester.pc \in NotInCall THEN Remaining(requester') <= 2
                ELSE Remaining(requester') < Remaining(requester)
          /\ responder' # responder =>
                IF responder.pc \in NotInCall THEN Remaining(responder') <= 2
                ELSE Remaining(responder') < Remaining(responder)
          /\ (Positions' # Positions /\ BagCardinality(thread') <= BagCardinality(thread))
                => ToGoAll' < ToGoAll]_vars
\* Witness: on a channel left Canceled by a cancel() that the responder never answered, a
\* claim() returned None after it had tried every channel.
C27_Witness ==
    /\ Released /\ state = Canceled
    /\ last.op = "claim" /\ last.res = "None"

\* C28 as claimed: a call that repeats the failed call before it, the peer having changed
\* State neither since that call returned nor during the repetition, fails again.
C28_FailuresStable ==
    [][/\ (RqReturns /\ Repeats(requester, requester', failed.rq) # "no")
              => requester'.res \in Failed
       /\ (RpReturns /\ Repeats(responder, responder', failed.rp) # "no")
              => responder'.res \in Failed]_vars

\* C28, amended: the same of a failed call that found the same State at each of its
\* accesses.  A call that failed on two different States (a cancel() between whose two
\* compare-and-swaps the responder took the request) may succeed when repeated.
C28_SteadyFailuresStable ==
    [][/\ (RqReturns /\ Repeats(requester, requester', failed.rq) = "steady")
              => requester'.res \in Failed
       /\ (RpReturns /\ Repeats(responder, responder', failed.rp) = "steady")
              => responder'.res \in Failed]_vars
\* Witness: a cancel() that failed on a Responded channel is repeated at once; its first
\* compare-and-swap has failed again.
C28_Witness ==
    /\ requester.op = "cancel" /\ requester.pc = "cas2" /\ failed.rq = "steady"
    /\ state = Responded /\ responder.pc = "idle"

\* The channels in cyclic index order starting at k mod N.
CyclicOrder(k) == [i \in 1 .. NChannels |-> (k + i - 1) % NChannels]

\* C29: the cursor advances by exactly one per call of claim(), and only so; the call that
\* found the cursor at k examines the channels in cyclic index order from k mod N, one after
\* the other, each once; it passes over a channel only when it found an end of it claimed,
\* returns the first whose two ends it found unclaimed, and returns None only after the
\* N-th.  When no other caller acts during the call, it returns the first channel in that
\* order whose two ends were unclaimed when it began, and None if there was none.
C29_ClaimScanOrder ==
    [][LET P == Positions
           Q == Positions'
           n == BagCardinality(thread)
           m == BagCardinality(thread')
       IN  /\ last_claimed' # last_claimed =>
                  /\ last_claimed' = last_claimed + 1
                  /\ LET p == <<"claim", "requester", CyclicOrder(last_claimed)>>
                     IN  CopiesIn(p, Q) = CopiesIn(p, P) + 1
           /\ (m > n /\ last_claimed' = last_claimed) =>
                  \A q \in BagToSet(Q) : q[1] = "claim" => CopiesIn(q, Q) <= CopiesIn(q, P)
           /\ (m = n /\ Q # P) =>
                  \E p \in BagToSet(P), q \in BagToSet(Q) :
                      /\ Q = (P (-) SetToBag({p})) (+) SetToBag({q})
                      /\ q[1] = p[1]
                      /\ \/ q[3] = p[3]
                         \/ /\ q[3] = Tail(p[3]) /\ q[2] = "requester"
                            /\ \/ p[2] = "drop"
                               \/ p[2] = "requester" /\ requester_claimed[Head(p[3])]
           /\ (m < n /\ last'.op = "claim") =>
                  \E p \in BagToSet(P) :
                      /\ Q = P (-) SetToBag({p})
                      /\ p[1] = "claim" /\ Head(p[3]) = last'.ch
                      /\ last'.res = "None" =>
                            /\ Len(p[3]) = 1
                            /\ \/ p[2] = "drop"
                               \/ p[2] = "requester" /\ requester_claimed[last'.ch]
                      /\ last'.res = "Some" =>
                            /\ p[2] = "responder" /\ ~responder_claimed[last'.ch]
                            /\ requester_claimed'[last'.ch] /\ responder_claimed'[last'.ch]
           /\ (last'.op = "claim" /\ last'.solo) =>
                  LET order == CyclicOrder(last_claimed' - 1)
                  IN  /\ last'.res = "Some" =>
                            \E j \in 1 .. NChannels :
                                /\ last'.ch = order[j] /\ order[j] \in last'.free
                                /\ \A i \in 1 .. (j - 1) : order[i] \notin last'.free
                      /\ last'.res = "None" =>
                            last'.free = {} /\ last'.ch = order[NChannels]]_vars
\* Witness: the second claim() on a pool whose channel 1 is held examined channel 1 first,
\* then channel 0, and returned channel 0.
C29_Witness ==
    /\ last.op = "claim" /\ last.res = "Some" /\ last.solo
    /\ last_claimed = 2 /\ last.ch = 0 /\ last.free = {0}
    /\ thread = EmptyBag

\* C30: every change of State is a step of one thread; the responder changes State only
\* from Requested, BuildingResponse or Canceled, the requester never from Canceled.  Hence
\* State is still Idle when request() stores Requested, and a respond() that follows a
\* successful take_request() finds BuildingResponse and returns Ok, unless a cancel()
\* returned Ok in between, before the respond() or during it.
C30_StateOwnership ==
    [][/\ state' # state => (requester' # requester) # (responder' # responder)
       /\ (state' # state /\ responder' # responder)
              => state \in {Requested, BuildingResponse, Canceled}
       /\ (state' # state /\ requester' # requester) => state # Canceled
       /\ (requester.op = "request" /\ requester.pc = "store" /\ requester' # requester)
              => state = Idle /\ state' = Requested
       /\ (/\ Returned(responder, "take_request") /\ responder.res = "Some"
           /\ responder' # responder /\ responder'.op = "respond")
              => \/ state = BuildingResponse
                 \/ state = Canceled /\ canceled /\ responder'.res = "Err"
       /\ (RpReturns /\ responder'.op = "respond" /\ responder'.obs[1] = BuildingResponse)
              => \/ responder'.res = "Ok" /\ state = BuildingResponse /\ state' = Responded
                 \/ responder'.res = "Err" /\ state = Canceled /\ canceled]_vars
\* Witness: a respond() that followed a successful take_request() has returned Err: a
\* cancel() returned Ok between its load of State and its compare-and-swap.
C30_Witness ==
    /\ Returned(responder, "respond") /\ responder.res = "Err"
    /\ responder.obs = <<BuildingResponse, Canceled>>
    /\ Returned(requester, "cancel") /\ requester.res = "Ok" /\ state = Canceled

\* The requester writes the slot in this step.
RequesterWrites ==
    /\ requester.pc = "data" /\ requester' # requester
    /\ requester.op \in {"request", "cancel", "take_response", "with_request_mut", "request_mut"}

\* C31: while the responder holds the reference Responder::request() returned, the
\* requester performs no write to the slot.
C31_BorrowedRequestUntouched == [][reference = "held" => ~RequesterWrites]_vars

Min(a, b) == IF a <= b THEN a ELSE b

\* C32: when only claim() is called, concurrently, on a pool with f channels free at both
\* ends, and no handle is released: no channel is handed to two callers; once the calls have
\* returned, min(k, f) of the k calls have succeeded; and when a call has returned None,
\* every channel has an end held by a caller's handle or by a claim() that will return it.
C32_ConcurrentClaims ==
    /\ \A ch \in Chan : requesters[ch] <= 1 /\ responders[ch] <= 1
    /\ thread = EmptyBag =>
          before.free - Cardinality(FreeChannels)
              = Min(last_claimed - before.cursor, before.free)
    /\ (last.op = "claim" /\ last.res = "None") =>
          \A ch \in Chan : requesters[ch] + responders[ch] >= 1 \/ CanSucceed(ch) # {}
\* Witness: three calls on a pool with two free channels, two of them concurrent; the
\* third returned None.
C32_Witness ==
    /\ before.free = 2 /\ last_claimed - before.cursor = 3
    /\ last.op = "claim" /\ last.res = "None" /\ ~last.solo
    /\ thread = EmptyBag /\ FreeChannels = {}

\* What C33 says of the steps of one thread, whose call record goes from c to d.
FailureLeavesState(c, d) ==
    /\ (d.pc = "idle" /\ d.res \in Failed) => state' = state
    /\ (state' # state /\ d.pc \notin {"idle", "panicked"})
          => d.pc = "data" /\ d.op \notin {"request", "respond"}
    /\ (c.pc = "data" /\ c.op \notin {"request", "respond"})
          => d.pc \in {"idle", "panicked"} /\ d.res \notin Failed
    /\ (d.pc = "idle" /\ d.op = "state")
          => state' = state /\ d.res = "Ok" /\ d.val = {state}
    /\ (d.pc = "idle" /\ d.op = "is_canceled")
          => state' = state /\ d.res = (IF state = Canceled THEN "true" ELSE "false")

\* C33: state() and is_canceled() leave State unchanged and never fail; state() returns
\* State and is_canceled() returns true exactly when State is Canceled.  A call that returns
\* Err or None has changed State at none of its steps: the step that returns the failure
\* leaves State unchanged, and a call that has changed State and not yet returned is at its
\* access to the slot, after which it returns a success.
C33_QueriesAndFailuresLeaveState ==
    [][/\ requester' # requester => FailureLeavesState(requester, requester')
       /\ responder' # responder => FailureLeavesState(responder, responder')]_vars
\* Witness: on a canceled channel state() has returned Canceled to the requester and
\* is_canceled() true to the responder, which still holds the reference to the request.
C33_Witness ==
    /\ Returned(requester, "state") /\ requester.val = {Canceled}
    /\ Returned(responder, "is_canceled") /\ responder.res = "true"
    /\ state = Canceled /\ reference = "held"

\* C34: claim() on an Interchange with no channels returns None.
C34_EmptyPoolClaimReturnsNone ==
    (channels = 0 /\ last.op = "claim") => last.res = "None"

====
